---- MODULE Spec2Model ----
(***************************************************************************)
(* Model of the round engine of bf_bot_core (src/bf_bot_core/src/arena.rs): *)
(* the shared tape, the per-tick protocol of Arena::step and the           *)
(* termination / verdict logic of the Iterator implementation.             *)
(*                                                                         *)
(* The bot program (bot::Bot) and the contestant slot                      *)
(* (bot_in_play::BotInPlay) live in other files of the crate; they are     *)
(* modelled from the interface the specification gives for them.           *)
(***************************************************************************)
EXTENDS Integers, Sequences, FiniteSets, TLC

\* ---------------------------------------------------------------- bounds
MaxTapeLen == 3
MaxStepsParam == 2
MaxProgLen == 2
MaxCalls == 3

\* ------------------------------------------------------------- constants
I8Min == -128

VARIABLES
    engine,        \* "params" before Arena::new, "ready" after it, "panicked" after a panic
    round_params,  \* the RoundParams handed to Arena::new
    bot1, bot2,    \* the two Bot programs handed to Arena::new
    max_steps,     \* Arena.max_steps
    step_nr,       \* Arena.step_nr
    tape,          \* Arena.tape (index i of the code is tape[i + 1])
    start_bot,     \* Arena.start_bot
    end_bot,       \* Arena.end_bot
    calls,         \* number of Iterator::next calls made so far
    last,          \* what the last operation observed and returned
    outcomes       \* what each Iterator::next call so far returned, in call order

vars == <<engine, round_params, bot1, bot2, max_steps, step_nr, tape,
          start_bot, end_bot, calls, last, outcomes>>

\* ------------------------------------------------ bot programs (bot::Bot)
Instruction == {"DoNothing", "Inc", "Dec", "Fwd", "RewindIfNotZero"}

Programs == UNION {[1..n -> Instruction] : n \in 0..MaxProgLen}

\* The programs that differ within a budget of max_steps ticks.  At most
\* max_steps instructions of a program are ever executed and its code pointer
\* never passes max_steps, so a longer program behaves as its prefix of
\* max_steps + 1 instructions.
ProgramsWithin(budget) == {program \in Programs : Len(program) <= budget + 1}

RoundParams ==
    [tape_length : 0..MaxTapeLen, invert_polarity : BOOLEAN, max_steps : 0..MaxStepsParam]

\* ------------------------------------------- Mutation (bot_in_play::Mutation)
NoMutation == [some |-> FALSE, index |-> 0, addend |-> 0]

Mutation(index, addend) == [some |-> TRUE, index |-> index, addend |-> addend]

\* ------------------------------------- BotInPlay (bot_in_play::BotInPlay)
NoBot == [pos |-> 0, code_pointer |-> 0, orientation |-> "Normal", polarity |-> "Normal"]

BotInPlayNew(tape_length, orientation, polarity) ==
    [pos |-> IF orientation = "Normal" THEN 0 ELSE tape_length - 1,
     code_pointer |-> 0,
     orientation |-> orientation,
     polarity |-> polarity]

program_has_ended(bot_in_play, program) == bot_in_play.code_pointer >= Len(program)

get_pos(bot_in_play) == bot_in_play.pos

bot_is_off_tape(bot_in_play, tape_length) ==
    bot_in_play.pos < 0 \/ bot_in_play.pos >= tape_length

\* One instruction, given whether the cell under the bot is exactly zero.
\* Yields the slot after the instruction and the optional deferred write.
execute_code(bot_in_play, program, current_cell_is_zero) ==
    LET instr == program[bot_in_play.code_pointer + 1]
        dir == IF bot_in_play.orientation = "Normal" THEN 1 ELSE -1
        sign == IF bot_in_play.polarity = "Normal" THEN 1 ELSE -1
    IN  CASE instr = "DoNothing" ->
                [bot |-> bot_in_play, mutation |-> NoMutation]
          [] instr = "Inc" ->
                [bot |-> bot_in_play, mutation |-> Mutation(bot_in_play.pos, sign)]
          [] instr = "Dec" ->
                [bot |-> bot_in_play, mutation |-> Mutation(bot_in_play.pos, -sign)]
          [] instr = "Fwd" ->
                [bot |-> [bot_in_play EXCEPT !.pos = @ + dir], mutation |-> NoMutation]
          [] instr = "RewindIfNotZero" ->
                [bot |-> IF current_cell_is_zero
                         THEN bot_in_play
                         ELSE [bot_in_play EXCEPT !.code_pointer = -1],
                 mutation |-> NoMutation]

increment_code_pointer(bot_in_play) ==
    [bot_in_play EXCEPT !.code_pointer = @ + 1]

\* ------------------------------------------------------------- the tape
\* Addition that stops at the ends of the i8 range instead of wrapping.
wrapping_add_saturating(a, b) ==
    IF a + b > 127 THEN 127 ELSE IF a + b < -128 THEN -128 ELSE a + b

wrapping_add(a, b) == ((a + b + 128) % 256) - 128

make_tape_ok(length) == length >= 1

\* make_tape writing the sentinel at index 0 only.
make_tape_one_flag(length) ==
    [i \in 1..length |-> IF i = 1 THEN I8Min ELSE 0]

make_tape(length) ==
    [i \in 1..length |-> IF i = 1 \/ i = length THEN I8Min ELSE 0]

get_tape == tape

flag_a_zeroed(t) == t[1] = 0

flag_b_zeroed(t) == t[Len(t)] = 0

apply_mutation(t, mutation) ==
    IF mutation.some
    THEN [t EXCEPT ![mutation.index + 1] = wrapping_add(@, mutation.addend)]
    ELSE t

\* Both writes computed from the tape as it was before either.
apply_mutations_from_old_tape(t, mutation_1, mutation_2) ==
    LET t1 == apply_mutation(t, mutation_1)
    IN  IF mutation_2.some
        THEN [t1 EXCEPT ![mutation_2.index + 1] =
                            wrapping_add(t[mutation_2.index + 1], mutation_2.addend)]
        ELSE t1

\* The two optional writes of a tick, the first contestant's first.
apply_mutations(t, mutation_1, mutation_2) ==
    apply_mutation(apply_mutation(t, mutation_1), mutation_2)

\* ------------------------------------------------------ Arena::step_bot
\* step_bot advancing the code pointer of a program that has ended as well.
step_bot_advancing_ended(bot_in_play, program, t) ==
    IF program_has_ended(bot_in_play, program)
    THEN [panic |-> FALSE, bot |-> increment_code_pointer(bot_in_play),
          mutation |-> NoMutation, zero |-> "none"]
    ELSE IF get_pos(bot_in_play) < 0 \/ get_pos(bot_in_play) >= Len(t)
    THEN [panic |-> TRUE, bot |-> bot_in_play, mutation |-> NoMutation, zero |-> "none"]
    ELSE LET current_cell_is_zero == t[get_pos(bot_in_play) + 1] = 0
             option == execute_code(bot_in_play, program, current_cell_is_zero)
         IN  [panic |-> FALSE,
              bot |-> increment_code_pointer(option.bot),
              mutation |-> option.mutation,
              zero |-> IF current_cell_is_zero THEN "zero" ELSE "nonzero"]

step_bot(bot_in_play, program, t) ==
    IF program_has_ended(bot_in_play, program)
    THEN [panic |-> FALSE, bot |-> bot_in_play, mutation |-> NoMutation, zero |-> "none"]
    ELSE IF get_pos(bot_in_play) < 0 \/ get_pos(bot_in_play) >= Len(t)
    THEN [panic |-> TRUE, bot |-> bot_in_play, mutation |-> NoMutation, zero |-> "none"]
    ELSE LET current_cell_is_zero == t[get_pos(bot_in_play) + 1] = 0
             option == execute_code(bot_in_play, program, current_cell_is_zero)
         IN  [panic |-> FALSE,
              bot |-> increment_code_pointer(option.bot),
              mutation |-> option.mutation,
              zero |-> IF current_cell_is_zero THEN "zero" ELSE "nonzero"]

\* ---------------------------------------------------------- Arena::step
\* step handing the second contestant the tape with the first write applied.
step_tape_for_end_bot_after_write(t, optional_cell_mutation_1) ==
    apply_mutation(t, optional_cell_mutation_1)

\* The tape the second contestant's step_bot call is given.
step_tape_for_end_bot(t, optional_cell_mutation_1) == t

\* step leaving the tick counter as it was.
step_count_stuck(nr) == nr

\* The tick counter after a step.
step_count(nr) == nr + 1

step(self) ==
    LET s1 == step_bot(self.start_bot, self.bot1, self.tape)
        s2 == step_bot(self.end_bot, self.bot2,
                       step_tape_for_end_bot(self.tape, s1.mutation))
        t2 == apply_mutations(self.tape, s1.mutation, s2.mutation)
    IN  IF s1.panic \/ s2.panic
        THEN [panic |-> TRUE, tape |-> self.tape, start_bot |-> self.start_bot,
              end_bot |-> self.end_bot, step_nr |-> self.step_nr,
              mutation1 |-> NoMutation, mutation2 |-> NoMutation,
              zero1 |-> "none", zero2 |-> "none"]
        ELSE [panic |-> FALSE, tape |-> t2, start_bot |-> s1.bot,
              end_bot |-> s2.bot, step_nr |-> step_count(self.step_nr),
              mutation1 |-> s1.mutation, mutation2 |-> s2.mutation,
              zero1 |-> s1.zero, zero2 |-> s2.zero]

\* ------------------------------------------------- verdict and end checks
RoundResultNew(a_lost, b_lost) ==
    [decided |-> TRUE, contestant_a_lost |-> a_lost, contestant_b_lost |-> b_lost]

NoResult == [decided |-> FALSE, contestant_a_lost |-> FALSE, contestant_b_lost |-> FALSE]

\* generate_result reading flag B instead of flag A.
generate_result_from_flag_b(t) ==
    IF flag_b_zeroed(t) THEN RoundResultNew(TRUE, TRUE) ELSE RoundResultNew(FALSE, FALSE)

\* generate_result with its two branches swapped.
generate_result_inverted(t) ==
    IF flag_a_zeroed(t) THEN RoundResultNew(FALSE, FALSE) ELSE RoundResultNew(TRUE, TRUE)

generate_result(t) ==
    IF flag_a_zeroed(t) THEN RoundResultNew(TRUE, TRUE) ELSE RoundResultNew(FALSE, FALSE)

\* exceeded_max_steps with a strict comparison.
exceeded_max_steps_strict(self) == self.step_nr > self.max_steps

exceeded_max_steps(self) == self.step_nr >= self.max_steps

\* both_programs_ended with the commented-out sink-state condition restored.
both_programs_ended_sink(self) ==
    /\ ~flag_a_zeroed(self.tape) /\ ~flag_b_zeroed(self.tape)
    /\ program_has_ended(self.start_bot, self.bot1)
    /\ program_has_ended(self.end_bot, self.bot2)

both_programs_ended(self) ==
    program_has_ended(self.start_bot, self.bot1) /\ program_has_ended(self.end_bot, self.bot2)

\* has_loser looking at the flags after the tick only.
has_loser_without_previous(self, flag_a_previously_zeroed, flag_b_previously_zeroed) ==
    \/ bot_is_off_tape(self.start_bot, Len(self.tape))
    \/ flag_a_zeroed(self.tape)
    \/ bot_is_off_tape(self.end_bot, Len(self.tape))
    \/ flag_b_zeroed(self.tape)

\* has_loser without the flag A condition.
has_loser_without_flag_a(self, flag_a_previously_zeroed, flag_b_previously_zeroed) ==
    \/ bot_is_off_tape(self.start_bot, Len(self.tape))
    \/ bot_is_off_tape(self.end_bot, Len(self.tape))
    \/ (flag_b_previously_zeroed /\ flag_b_zeroed(self.tape))

\* has_loser without the off-tape conditions.
has_loser_flags_only(self, flag_a_previously_zeroed, flag_b_previously_zeroed) ==
    \/ (flag_a_previously_zeroed /\ flag_a_zeroed(self.tape))
    \/ (flag_b_previously_zeroed /\ flag_b_zeroed(self.tape))

has_loser(self, flag_a_previously_zeroed, flag_b_previously_zeroed) ==
    \/ bot_is_off_tape(self.start_bot, Len(self.tape))
    \/ (flag_a_previously_zeroed /\ flag_a_zeroed(self.tape))
    \/ bot_is_off_tape(self.end_bot, Len(self.tape))
    \/ (flag_b_previously_zeroed /\ flag_b_zeroed(self.tape))

\* ---------------------------------------------------------------- state
Self ==
    [max_steps |-> max_steps, step_nr |-> step_nr, tape |-> tape,
     start_bot |-> start_bot, end_bot |-> end_bot, bot1 |-> bot1, bot2 |-> bot2]

NoLast ==
    [kind |-> "none", result |-> NoResult,
     pre_tape |-> <<>>, pre_step_nr |-> 0, pre_start |-> NoBot, pre_end |-> NoBot,
     flag_a_previously_zeroed |-> FALSE, flag_b_previously_zeroed |-> FALSE,
     mutation1 |-> NoMutation, mutation2 |-> NoMutation,
     zero1 |-> "none", zero2 |-> "none"]

Init ==
    /\ engine = "params"
    /\ round_params \in RoundParams
    /\ bot1 \in ProgramsWithin(round_params.max_steps)
    /\ bot2 \in ProgramsWithin(round_params.max_steps)
    /\ max_steps = 0
    /\ step_nr = 0
    /\ tape = <<>>
    /\ start_bot = NoBot
    /\ end_bot = NoBot
    /\ calls = 0
    /\ last = NoLast
    /\ outcomes = <<>>

\* Arena::new
New ==
    /\ engine = "params"
    /\ last' = [NoLast EXCEPT !.kind = "new"]
    /\ IF make_tape_ok(round_params.tape_length)
       THEN LET polarity == IF round_params.invert_polarity THEN "Reversed" ELSE "Normal"
            IN  /\ engine' = "ready"
                /\ max_steps' = round_params.max_steps
                /\ step_nr' = 0
                /\ tape' = make_tape(round_params.tape_length)
                /\ start_bot' = BotInPlayNew(round_params.tape_length, "Normal", "Normal")
                /\ end_bot' = BotInPlayNew(round_params.tape_length, "Reversed", polarity)
       ELSE /\ engine' = "panicked"
            /\ UNCHANGED <<max_steps, step_nr, tape, start_bot, end_bot>>
    /\ UNCHANGED <<round_params, bot1, bot2, calls, outcomes>>

\* tests::iterator_bothFlagsStartAtZero_bothBotsLoseInFirstStep overwrites the
\* tape of the freshly constructed arena with zeroes.
ForceTape ==
    /\ engine = "ready"
    /\ last.kind = "new"
    /\ tape' = [i \in 1..round_params.tape_length |-> 0]
    /\ last' = [NoLast EXCEPT !.kind = "force"]
    /\ UNCHANGED <<engine, round_params, bot1, bot2, max_steps, step_nr,
                   start_bot, end_bot, calls, outcomes>>

\* The record of one Iterator::next call.
Observed(kind, result, st, fa, fb) ==
    [kind |-> kind, result |-> result,
     pre_tape |-> tape, pre_step_nr |-> step_nr,
     pre_start |-> start_bot, pre_end |-> end_bot,
     flag_a_previously_zeroed |-> fa, flag_b_previously_zeroed |-> fb,
     mutation1 |-> st.mutation1, mutation2 |-> st.mutation2,
     zero1 |-> st.zero1, zero2 |-> st.zero2]

NoStep ==
    [mutation1 |-> NoMutation, mutation2 |-> NoMutation, zero1 |-> "none", zero2 |-> "none"]

\* The early return of Iterator::next taken one tick too late.
next_returns_early_past_budget(self) ==
    self.step_nr > self.max_steps \/ both_programs_ended(self)

\* Whether Iterator::next returns before stepping.
next_returns_early(self) == exceeded_max_steps(self) \/ both_programs_ended(self)

\* The early return rewinding the tick counter once the result is out.
early_return_rewinding(self) ==
    [kind |-> "terminal", self |-> [self EXCEPT !.step_nr = 0],
     result |-> generate_result(self.tape), st |-> NoStep,
     flag_a_previously_zeroed |-> FALSE, flag_b_previously_zeroed |-> FALSE]

\* The early return of Iterator::next: the result, and the arena untouched.
early_return(self) ==
    [kind |-> "terminal", self |-> self, result |-> generate_result(self.tape),
     st |-> NoStep,
     flag_a_previously_zeroed |-> FALSE, flag_b_previously_zeroed |-> FALSE]

\* What one Iterator::next call on self does: the arena it leaves and what
\* it returns.
next(self) ==
    IF next_returns_early(self)
    THEN early_return(self)
    ELSE LET flag_a_previously_zeroed == flag_a_zeroed(self.tape)
             flag_b_previously_zeroed == flag_b_zeroed(self.tape)
             st == step(self)
             after == [self EXCEPT !.tape = st.tape, !.step_nr = st.step_nr,
                                   !.start_bot = st.start_bot, !.end_bot = st.end_bot]
         IN  IF st.panic
             THEN [kind |-> "panic", self |-> self, result |-> NoResult, st |-> NoStep,
                   flag_a_previously_zeroed |-> flag_a_previously_zeroed,
                   flag_b_previously_zeroed |-> flag_b_previously_zeroed]
             ELSE [kind |-> "tick", self |-> after,
                   result |-> IF has_loser(after, flag_a_previously_zeroed,
                                           flag_b_previously_zeroed)
                              THEN generate_result(after.tape)
                              ELSE NoResult,
                   st |-> st,
                   flag_a_previously_zeroed |-> flag_a_previously_zeroed,
                   flag_b_previously_zeroed |-> flag_b_previously_zeroed]

\* Iterator::next
ArenaNext ==
    /\ engine = "ready"
    /\ calls < MaxCalls
    /\ calls' = calls + 1
    /\ \E r \in {next(Self)} :
          /\ engine' = IF r.kind = "panic" THEN "panicked" ELSE engine
          /\ tape' = r.self.tape
          /\ step_nr' = r.self.step_nr
          /\ start_bot' = r.self.start_bot
          /\ end_bot' = r.self.end_bot
          /\ last' = Observed(r.kind, r.result, r.st,
                              r.flag_a_previously_zeroed, r.flag_b_previously_zeroed)
          /\ outcomes' = Append(outcomes, [kind |-> r.kind, result |-> r.result])
    /\ UNCHANGED <<round_params, bot1, bot2, max_steps>>

Next == New \/ ForceTape \/ ArenaNext

Spec == Init /\ [][Next]_vars

\* ------------------------------------------------------------ properties
CallKinds == {"terminal", "tick", "panic"}

Returned == last.kind \in {"terminal", "tick"}

TapeLen == Len(tape)

OffTape(pos) == pos < 0 \/ pos > TapeLen - 1

AsConstructed(t) ==
    \A i \in 1..Len(t) : t[i] = (IF i = 1 \/ i = Len(t) THEN -128 ELSE 0)

AllZero(t) == \A i \in 1..Len(t) : t[i] = 0

EndedBefore == 
    /\ last.pre_start.code_pointer >= Len(bot1)
    /\ last.pre_end.code_pointer >= Len(bot2)

IdleProgram(program) == \A i \in 1..Len(program) : program[i] = "DoNothing"

\* C1: a call that executes a tick returns Decided exactly when, after the
\* tick, a contestant is outside 0..N-1, or flag A was zero before and after
\* the tick, or flag B was zero before and after the tick; a flag that only
\* became zero during the tick does not end the round.
C1_TickDecidedIffLoser ==
    last.kind = "tick" =>
        (last.result.decided <=>
            \/ OffTape(start_bot.pos)
            \/ OffTape(end_bot.pos)
            \/ (last.pre_tape[1] = 0 /\ tape[1] = 0)
            \/ (last.pre_tape[TapeLen] = 0 /\ tape[TapeLen] = 0))

C1_Witness ==
    /\ TapeLen >= 2
    /\ last.kind = "tick"
    /\ last.pre_tape[1] # 0
    /\ tape[1] = 0
    /\ ~last.result.decided

\* C2: every Decided result marks both contestants as lost exactly when
\* cell 0 is zero at that moment, whatever ended the round and whatever
\* flag B holds.
C2_VerdictIsFlagA ==
    (Returned /\ last.result.decided) =>
        /\ last.result.contestant_a_lost = (tape[1] = 0)
        /\ last.result.contestant_b_lost = (tape[1] = 0)

C2_Witness ==
    /\ last.kind = "tick"
    /\ last.result.decided
    /\ tape[TapeLen] = 0
    /\ tape[1] # 0
    /\ ~last.result.contestant_a_lost
    /\ ~last.result.contestant_b_lost

C4_BothReadPreTickTape ==
    last.kind = "tick" =>
        /\ last.zero1 # "none" =>
              (last.zero1 = "zero") = (last.pre_tape[last.pre_start.pos + 1] = 0)
        /\ last.zero2 # "none" =>
              (last.zero2 = "zero") = (last.pre_tape[last.pre_end.pos + 1] = 0)

C4_Witness ==
    /\ TapeLen >= 2
    /\ last.kind = "tick"
    /\ last.mutation1.some
    /\ last.mutation1.index = last.pre_end.pos
    /\ last.zero2 = "zero"
    /\ tape[last.pre_end.pos + 1] # 0

\* C5: with max_steps = 0 the first call after construction returns Decided
\* with neither contestant lost and takes no tick.
C5_ZeroBudgetDecidesAtOnce ==
    (last.kind \in CallKinds /\ calls = 1 /\ max_steps = 0
        /\ AsConstructed(last.pre_tape)) =>
        /\ last.kind = "terminal"
        /\ last.result.decided
        /\ ~last.result.contestant_a_lost
        /\ ~last.result.contestant_b_lost
        /\ tape = last.pre_tape
        /\ step_nr = 0

C5_Witness ==
    /\ TapeLen >= 2
    /\ last.kind = "terminal"
    /\ calls = 1
    /\ max_steps = 0
    /\ AsConstructed(last.pre_tape)
    /\ Len(bot1) > 0
    /\ ~IdleProgram(bot1)
    /\ last.result.decided

\* C6: with max_steps = k >= 1 and two programs of more than k do-nothing
\* instructions, calls 1..k after construction return Running and call k+1
\* returns Decided.
C6_BudgetTickStillRunning ==
    (last.kind \in CallKinds /\ max_steps >= 1
        /\ IdleProgram(bot1) /\ Len(bot1) > max_steps
        /\ IdleProgram(bot2) /\ Len(bot2) > max_steps
        /\ AsConstructed(last.pre_tape)) =>
        /\ calls <= max_steps => (last.kind = "tick" /\ ~last.result.decided)
        /\ calls = max_steps + 1 => (Returned /\ last.result.decided)

C6_Witness ==
    /\ TapeLen >= 2
    /\ max_steps >= 1
    /\ IdleProgram(bot1) /\ Len(bot1) > max_steps
    /\ IdleProgram(bot2) /\ Len(bot2) > max_steps
    /\ AsConstructed(last.pre_tape)
    /\ calls = max_steps + 1
    /\ last.kind = "terminal"
    /\ last.result.decided

\* C7: with two empty programs the first call returns Decided for every
\* max_steps, and no tick is executed.
C7_EmptyBotsDecideAtOnce ==
    (last.kind \in CallKinds /\ calls = 1 /\ Len(bot1) = 0 /\ Len(bot2) = 0) =>
        /\ last.kind = "terminal"
        /\ last.result.decided
        /\ step_nr = 0

C7_Witness ==
    /\ TapeLen >= 2
    /\ last.kind = "terminal"
    /\ calls = 1
    /\ Len(bot1) = 0
    /\ Len(bot2) = 0
    /\ max_steps >= 1
    /\ last.result.decided

\* C8 as stated: a call that starts with every cell of an N >= 2 tape at
\* zero returns Decided with both contestants lost, whatever the programs
\* and max_steps.
C8_AllZeroAlwaysMutualLoss ==
    (last.kind \in CallKinds /\ Len(last.pre_tape) >= 2 /\ AllZero(last.pre_tape)) =>
        /\ last.result.decided
        /\ last.result.contestant_a_lost
        /\ last.result.contestant_b_lost

\* C8 amended: a call that starts with every cell zero and returns with
\* cell 0 still zero returns Decided with both contestants lost.
C8_AllZeroFlagAKeptMutualLoss ==
    (Returned /\ AllZero(last.pre_tape) /\ tape[1] = 0) =>
        /\ last.result.decided
        /\ last.result.contestant_a_lost
        /\ last.result.contestant_b_lost

C8_Witness ==
    /\ last.kind = "tick"
    /\ AllZero(last.pre_tape)
    /\ tape[1] = 0
    /\ tape[TapeLen] # 0
    /\ last.result.decided
    /\ last.result.contestant_a_lost
    /\ last.result.contestant_b_lost

\* C9: for every tape length N >= 2 construction yields N cells, -128 in
\* cell 0 and cell N-1, 0 elsewhere, and a tick counter of 0.
C9_ConstructedTape ==
    (last.kind = "new" /\ round_params.tape_length >= 2) =>
        /\ engine = "ready"
        /\ Len(tape) = round_params.tape_length
        /\ \A i \in 1..Len(tape) :
              tape[i] = (IF i = 1 \/ i = round_params.tape_length THEN -128 ELSE 0)
        /\ step_nr = 0

C9_Witness ==
    /\ last.kind = "new"
    /\ engine = "ready"
    /\ round_params.tape_length >= 3
    /\ tape[2] = 0
    /\ tape[round_params.tape_length] = -128

\* C10: construction with tape_length 0 or 1 is rejected with an error
\* instead of yielding a usable engine.
C10_ShortTapeRejected ==
    (last.kind = "new" /\ round_params.tape_length < 2) => engine = "panicked"

\* The calls, in order, that returned a result.
DecidedCalls == {i \in 1..Len(outcomes) : outcomes[i].result.decided}

StillRunning(bot_in_play, program) == bot_in_play.code_pointer < Len(program)

\* C12: from construction on, for any two programs, an executed tick raises
\* the tick counter by exactly 1, the counter never exceeds max_steps, and
\* one of the first max_steps + 1 calls returns Decided.
C12_BudgetBoundsTheRound ==
    engine # "params" =>
        /\ last.kind = "tick" => step_nr = last.pre_step_nr + 1
        /\ last.kind \in {"terminal", "panic"} => step_nr = last.pre_step_nr
        /\ step_nr <= max_steps
        /\ step_nr <= calls
        /\ Len(outcomes) >= max_steps + 1 =>
              \E i \in 1..(max_steps + 1) : outcomes[i].result.decided

C12_Witness ==
    /\ TapeLen >= 2
    /\ max_steps >= 2
    /\ calls = max_steps + 1
    /\ DecidedCalls = {max_steps + 1}
    /\ step_nr = max_steps
    /\ StillRunning(start_bot, bot1)
    /\ StillRunning(end_bot, bot2)
    /\ ~IdleProgram(bot1)

\* C13 as stated: once a call has returned Decided, every later call on
\* that round (tape of N >= 2 cells) returns Decided too.  Stated of each
\* call and the call before it, in every reachable state, which covers every
\* pair of calls.
C13_DecidedStaysDecided ==
    (round_params.tape_length >= 2 /\ Len(outcomes) >= 2
        /\ outcomes[Len(outcomes) - 1].result.decided) =>
        outcomes[Len(outcomes)].result.decided

\* C13 amended: once a call has returned Decided from the terminal check
\* (budget used up or both programs ended), every later call returns the
\* same Decided result from the terminal check.  Stated of each call and the
\* call before it.
C13_TerminalStaysTerminal ==
    (Len(outcomes) >= 2 /\ outcomes[Len(outcomes) - 1].kind = "terminal") =>
        /\ outcomes[Len(outcomes)].kind = "terminal"
        /\ outcomes[Len(outcomes)].result.decided
        /\ outcomes[Len(outcomes)].result = outcomes[Len(outcomes) - 1].result

C13_Witness ==
    /\ TapeLen >= 2
    /\ Len(outcomes) >= 3
    /\ outcomes[1].kind = "tick"
    /\ ~outcomes[1].result.decided
    /\ outcomes[2].kind = "terminal"
    /\ outcomes[3].kind = "terminal"
    /\ StillRunning(start_bot, bot1)

\* Signed 8-bit wraparound of an integer.
WrapI8(x) == ((x + 128) % 256) - 128

\* The addend a mutation contributes to the cell at index.
AddendAt(mutation, index) ==
    IF mutation.some /\ mutation.index = index THEN mutation.addend ELSE 0

\* C14: after an executed tick every cell is the pre-tick cell plus the
\* addends of the mutations aimed at it, with wraparound, all other cells
\* are unchanged, and applying the second contestant's mutation before the
\* first's gives the same tape, also when both aim at one cell.
C14_MutationsAddAndCommute ==
    last.kind = "tick" =>
        /\ Len(tape) = Len(last.pre_tape)
        /\ \A i \in 1..Len(tape) :
              LET a1 == AddendAt(last.mutation1, i - 1)
                  a2 == AddendAt(last.mutation2, i - 1)
              IN  /\ tape[i] = WrapI8(last.pre_tape[i] + a1 + a2)
                  /\ tape[i] = WrapI8(WrapI8(last.pre_tape[i] + a1) + a2)
                  /\ tape[i] = WrapI8(WrapI8(last.pre_tape[i] + a2) + a1)
                  /\ (~(last.mutation1.some /\ last.mutation1.index = i - 1)
                        /\ ~(last.mutation2.some /\ last.mutation2.index = i - 1))
                        => tape[i] = last.pre_tape[i]

C14_Witness ==
    /\ TapeLen >= 2
    /\ last.kind = "tick"
    /\ last.mutation1.some
    /\ last.mutation2.some
    /\ last.mutation1.index = last.mutation2.index
    /\ tape[last.mutation1.index + 1] # last.pre_tape[last.mutation1.index + 1]

\* What one tick may do to one contestant slot: nothing when its program had
\* ended, else the effect of the one instruction under its code pointer
\* followed by one code pointer advance.
SlotActedOnce(pre, post, program, zero, mutation) ==
    IF pre.code_pointer >= Len(program)
    THEN /\ post = pre
         /\ ~mutation.some
         /\ zero = "none"
    ELSE LET instr == program[pre.code_pointer + 1]
             rewound == instr = "RewindIfNotZero" /\ zero = "nonzero"
         IN  /\ zero \in {"zero", "nonzero"}
             /\ post.code_pointer = (IF rewound THEN -1 ELSE pre.code_pointer) + 1
             /\ post.pos = pre.pos
                   + (IF instr = "Fwd"
                      THEN (IF pre.orientation = "Normal" THEN 1 ELSE -1)
                      ELSE 0)
             /\ mutation.some = (instr \in {"Inc", "Dec"})
             /\ mutation.some =>
                   /\ mutation.index = pre.pos
                   /\ mutation.addend \in {-1, 1}
             /\ post.orientation = pre.orientation
             /\ post.polarity = pre.polarity

\* C15: in an executed tick a contestant whose program had not ended executes
\* exactly one instruction and then gets exactly one code pointer advance,
\* also when that instruction was its last; a contestant whose program had
\* ended executes nothing, gets no advance, writes nothing and stays where it
\* is, while the other contestant still acts.
C15_OneInstructionPerLiveSlot ==
    last.kind = "tick" =>
        /\ SlotActedOnce(last.pre_start, start_bot, bot1, last.zero1, last.mutation1)
        /\ SlotActedOnce(last.pre_end, end_bot, bot2, last.zero2, last.mutation2)

C15_Witness ==
    /\ TapeLen >= 2
    /\ last.kind = "tick"
    /\ last.pre_start.code_pointer >= Len(bot1)
    /\ start_bot = last.pre_start
    /\ last.pre_end.code_pointer = Len(bot2) - 1
    /\ end_bot.code_pointer = Len(bot2)
    /\ last.mutation2.some
    /\ step_nr >= 2

\* The cell a mutation aims at is written by that mutation alone.
OnlyWrite(mutation, other) ==
    mutation.some /\ ~(other.some /\ other.index = mutation.index)

\* The cell a lone mutation aimed at holds the wrapped sum.
WrappedAt(mutation) ==
    LET old == last.pre_tape[mutation.index + 1]
        new == tape[mutation.index + 1]
    IN  /\ new = ((old + mutation.addend + 128) % 256) - 128
        /\ (old = 127 /\ mutation.addend = 1) => new = -128
        /\ (old = -128 /\ mutation.addend = -1) => new = 127

\* C16: a mutation is applied as signed 8-bit wraparound addition,
\* new = ((old + addend + 128) mod 256) - 128, without saturation or error
\* (127 + 1 gives -128, -128 - 1 gives 127), so after any sequence of calls
\* the tape still has N cells, each in -128..127.
C16_WraparoundKeepsCellsInRange ==
    engine = "ready" =>
        /\ Len(tape) = round_params.tape_length
        /\ \A i \in 1..Len(tape) : tape[i] >= -128 /\ tape[i] <= 127
        /\ last.kind = "tick" =>
              /\ OnlyWrite(last.mutation1, last.mutation2) => WrappedAt(last.mutation1)
              /\ OnlyWrite(last.mutation2, last.mutation1) => WrappedAt(last.mutation2)

C16_Witness ==
    /\ TapeLen >= 2
    /\ last.kind = "tick"
    /\ last.mutation1.some
    /\ ~last.mutation2.some
    /\ last.mutation1.addend = 1
    /\ last.pre_tape[last.mutation1.index + 1] = 127
    /\ tape[last.mutation1.index + 1] = -128

\* No call before the last one returned Decided: the caller kept the contract.
ContractKept == \A i \in 1..(Len(outcomes) - 1) : ~outcomes[i].result.decided

OnTape(pos) == pos >= 0 /\ pos <= TapeLen - 1

\* C17: both slots start on the tape; while the caller stops at the first
\* Decided, no call reads the tape out of range, every slot that takes its
\* zero-test stands inside 0..N-1, and a tick that moves a slot off the tape
\* returns Decided itself; an out-of-range read happens only in a call made
\* after a Decided result, for a slot that is off the tape and has not ended.
C17_ReadsStayOnTapeUnderContract ==
    /\ (last.kind = "new" /\ engine = "ready") =>
          (OnTape(start_bot.pos) /\ OnTape(end_bot.pos))
    /\ (last.kind \in CallKinds /\ ContractKept) =>
          /\ last.kind # "panic"
          /\ last.zero1 # "none" => OnTape(last.pre_start.pos)
          /\ last.zero2 # "none" => OnTape(last.pre_end.pos)
          /\ StillRunning(last.pre_start, bot1) => OnTape(last.pre_start.pos)
          /\ StillRunning(last.pre_end, bot2) => OnTape(last.pre_end.pos)
          /\ (last.kind = "tick" /\ (~OnTape(start_bot.pos) \/ ~OnTape(end_bot.pos)))
                => last.result.decided
    /\ last.kind = "panic" =>
          /\ ~ContractKept
          /\ \/ (StillRunning(last.pre_start, bot1) /\ ~OnTape(last.pre_start.pos))
             \/ (StillRunning(last.pre_end, bot2) /\ ~OnTape(last.pre_end.pos))

C17_Witness ==
    /\ TapeLen >= 2
    /\ last.kind = "tick"
    /\ ContractKept
    /\ OnTape(last.pre_start.pos)
    /\ ~OnTape(start_bot.pos)
    /\ last.result.decided
    /\ tape[1] # 0
    /\ tape[TapeLen] # 0

====
